---- MODULE Spec2Model ----
(***************************************************************************)
(* Model of pyviral.py: the Kermack-McKendrick derivative functions        *)
(* calc_ds, calc_di, calc_dr, the forward-Euler step eulerstep and the     *)
(* driver run.                                                             *)
(*                                                                         *)
(* Numbers are rationals <<n, d>> in lowest terms with d > 0.  The Python  *)
(* operators *, + and - are modelled by Mul, Add and Sub.  Their result    *)
(* depends on the type of the arguments, held in numtype:                  *)
(*   "exact"  int / fractions.Fraction arguments: no rounding;             *)
(*   "float"  binary floating point: every operation rounds its exact      *)
(*            result to the nearest value with Prec significant bits,      *)
(*            ties to even (IEEE 754; Python's float has 53 bits, the      *)
(*            model a small precision Prec).                               *)
(***************************************************************************)
EXTENDS Integers, Sequences, FiniteSets, TLC

VARIABLES
    numtype,  \* type of the numeric arguments: "exact" or "float"
    globalT,  \* the module global T that yield_steps reads: Unbound or a number
    op,       \* the function called: "none" before the call
    a,        \* the arguments of the call
    out,      \* the value the call returned
    pc,       \* "idle", "loop" (in yield_steps), "returned" or "raised"
    exc,      \* the exception a raised call ended with
    steps,    \* the values yielded so far: list(yield_steps())
    nsteps    \* len(np.arange(0, T, dt))

vars == <<numtype, globalT, op, a, out, pc, exc, steps, nsteps>>

\* Significant bits of the floating-point format of the model.
Prec == 3

----------------------------------------------------------------------------
\* Rational arithmetic

Abs(x) == IF x < 0 THEN -x ELSE x

RECURSIVE GCD(_, _)
GCD(x, y) == IF y = 0 THEN x ELSE GCD(y, x % y)

\* The rational n/d in lowest terms, d > 0.
Q(n, d) ==
    LET g  == GCD(Abs(n), Abs(d))
        sg == IF d < 0 THEN -1 ELSE 1
    IN  <<(sg * n) \div g, (sg * d) \div g>>

QInt(n) == <<n, 1>>
Zero == QInt(0)
Half == Q(1, 2)

QAdd(x, y) == Q(x[1] * y[2] + y[1] * x[2], x[2] * y[2])
QNeg(x) == <<-x[1], x[2]>>
QSub(x, y) == QAdd(x, QNeg(y))
QMul(x, y) == Q(x[1] * y[1], x[2] * y[2])
QDiv(x, y) == Q(x[1] * y[2], x[2] * y[1])
QLess(x, y) == x[1] * y[2] < y[1] * x[2]
QIsInt(x) == x[2] = 1

RECURSIVE Pow2(_)
Pow2(e) == IF e = 0 THEN 1 ELSE 2 * Pow2(e - 1)

\* n/d (n >= 0, d > 0) rounded to the nearest integer, ties to even.
RoundHalfEven(n, d) ==
    LET q == n \div d
        r == n % d
    IN  IF 2 * r < d THEN q
        ELSE IF 2 * r > d THEN q + 1
        ELSE IF q % 2 = 0 THEN q ELSE q + 1

\* n/d * 2^e (n > 0) rounded to Prec significant bits: scale the significand
\* into [2^(Prec-1), 2^Prec), round it to an integer, scale back.
RECURSIVE RoundPos(_, _, _)
RoundPos(n, d, e) ==
    IF n >= d * Pow2(Prec) THEN RoundPos(n, 2 * d, e + 1)
    ELSE IF n < d * Pow2(Prec - 1) THEN RoundPos(2 * n, d, e - 1)
    ELSE LET m == RoundHalfEven(n, d)
         IN  IF e >= 0 THEN Q(m * Pow2(e), 1) ELSE Q(m, Pow2(-e))

\* Round to nearest representable float (exponent range unbounded).
RoundFloat(x) ==
    IF x[1] = 0 THEN Zero
    ELSE IF x[1] > 0 THEN RoundPos(x[1], x[2], 0)
    ELSE QNeg(RoundPos(-x[1], x[2], 0))

\* The result of one Python arithmetic operation whose exact value is x.
Rnd(x) == IF numtype = "float" THEN RoundFloat(x) ELSE x

Mul(x, y) == Rnd(QMul(x, y))
Add(x, y) == Rnd(QAdd(x, y))
Sub(x, y) == Rnd(QSub(x, y))
Div(x, y) == Rnd(QDiv(x, y))

\* math.ceil / np.ceil: the least integer not below x.
Ceiling(x) ==
    LET q == x[1] \div x[2]
    IN  IF x[1] % x[2] = 0 THEN QInt(q) ELSE QInt(q + 1)

----------------------------------------------------------------------------
\* The derivative functions

\* -1 * beta * s * i + alpha * (s + i + r) - mu * s + f * r
calc_ds(s, i, r, beta, alpha, mu, f) ==
    Add(Sub(Add(Mul(Mul(Mul(QInt(-1), beta), s), i),
                Mul(alpha, Add(Add(s, i), r))),
            Mul(mu, s)),
        Mul(f, r))

\* Variant of calc_di: the recovery term added instead of subtracted.
calc_di_plus_gamma(s, i, beta, gamma, mu) ==
    Sub(Add(Mul(Mul(beta, s), i), Mul(gamma, i)), Mul(mu, i))

\* beta * s * i - gamma * i - mu * i
calc_di(s, i, beta, gamma, mu) ==
    Sub(Sub(Mul(Mul(beta, s), i), Mul(gamma, i)), Mul(mu, i))

\* gamma * i - mu * r - f * r
calc_dr(i, r, gamma, mu, f) ==
    Sub(Sub(Mul(gamma, i), Mul(mu, r)), Mul(f, r))

----------------------------------------------------------------------------
\* The Euler step

\* s1 = s + dt * calc_ds(s, i, r, beta, alpha, mu, f)
euler_s1(s, i, r, beta, gamma, alpha, mu, f, dt) ==
    Add(s, Mul(dt, calc_ds(s, i, r, beta, alpha, mu, f)))

\* i1 = i + dt * calc_di(s, i, beta, gamma, mu)
euler_i1(s, i, r, beta, gamma, alpha, mu, f, dt) ==
    Add(i, Mul(dt, calc_di(s, i, beta, gamma, mu)))

\* r1 = r + dt * calc_dr(i, r, gamma, mu, f)
euler_r1(s, i, r, beta, gamma, alpha, mu, f, dt) ==
    Add(r, Mul(dt, calc_dr(i, r, gamma, mu, f)))

\* Variant of extinction_floor: only negative values are clamped.
extinction_floor_at_zero(i1) == IF QLess(i1, Zero) THEN Zero ELSE i1

\* Variant of extinction_floor: no clamping at all.
no_extinction_floor(i1) == i1

\* if i1 < 0.5: i1 = 0
extinction_floor(i1) == IF QLess(i1, Half) THEN Zero ELSE i1

\* Variant of np_ceil: np.floor.
np_floor(v) == [k \in 1..3 |-> QInt(v[k][1] \div v[k][2])]

\* Variant of np_ceil: np.round (to nearest, ties to even).
np_round(v) ==
    [k \in 1..3 |->
        IF v[k][1] >= 0 THEN QInt(RoundHalfEven(v[k][1], v[k][2]))
        ELSE QInt(-RoundHalfEven(-v[k][1], v[k][2]))]

\* np.ceil(np.array([s1, i1, r1]))
np_ceil(v) == [k \in 1..3 |-> Ceiling(v[k])]

eulerstep(s, i, r, beta, gamma, alpha, mu, f, dt) ==
    LET s1 == euler_s1(s, i, r, beta, gamma, alpha, mu, f, dt)
        i1 == euler_i1(s, i, r, beta, gamma, alpha, mu, f, dt)
        r1 == euler_r1(s, i, r, beta, gamma, alpha, mu, f, dt)
    IN  np_ceil(<<s1, extinction_floor(i1), r1>>)

----------------------------------------------------------------------------
\* The driver run

\* The module defines no global T; a bound T is a module attribute set by
\* the importing program.
Unbound == <<>>

\* len(np.arange(0, T, dt)): ceil((T - 0) / dt) markers, none if that is
\* not positive (dt # 0).
arange_len(stop, dt) ==
    LET c == Ceiling(Div(Sub(stop, Zero), dt))
    IN  IF c[1] > 0 THEN c[1] ELSE 0

\* Variant of yield_value: the step from the state yielded last.
yield_value_threaded(args, yielded) ==
    IF yielded = <<>>
    THEN eulerstep(args.s, args.i, args.r, args.beta, args.gamma,
                   args.alpha, args.mu, args.f, args.dt)
    ELSE LET last == yielded[Len(yielded)]
         IN  eulerstep(last[1], last[2], last[3], args.beta, args.gamma,
                       args.alpha, args.mu, args.f, args.dt)

\* The value one iteration of yield_steps yields: the step from the
\* arguments s0, i0, r0 of run, whatever was yielded before.
yield_value(args, yielded) ==
    eulerstep(args.s, args.i, args.r, args.beta, args.gamma,
              args.alpha, args.mu, args.f, args.dt)

\* np.array(list(...)).T : the rows of the transposed n x 3 array.
transpose(rows) == [c \in 1..3 |-> [k \in 1..Len(rows) |-> rows[k][c]]]

----------------------------------------------------------------------------
\* Inputs

PopSet == {QInt(-3), Zero, Q(1, 4), QInt(1), QInt(7)}
SSet == {QInt(-3), Q(1, 4), QInt(1), QInt(7)}
RSet == {QInt(-3), Zero, QInt(1)}
BetaSet == {Q(-1, 2), Zero, Q(1, 4), QInt(1)}
GammaSet == {Zero, Q(1, 4), QInt(1)}
\* <<alpha, mu, f>>
VitalSet == {<<Zero, Zero, Zero>>, <<Half, Zero, Zero>>, <<Zero, Half, Zero>>,
             <<Zero, Zero, Half>>, <<Half, Half, Half>>}
DtSet == {Half, QInt(1), QInt(4)}
RunDtSet == DtSet \cup {QInt(-1)}
HorizonSet == {Zero, Half, QInt(2)}
GlobalTSet == {QInt(2)}

Args(s, i, r, beta, gamma, alpha, mu, f, dt, t) ==
    [s |-> s, i |-> i, r |-> r, beta |-> beta, gamma |-> gamma,
     alpha |-> alpha, mu |-> mu, f |-> f, dt |-> dt, t |-> t]

\* Parameters a function does not take are recorded as 0.
NoArgs == Args(Zero, Zero, Zero, Zero, Zero, Zero, Zero, Zero, Zero, Zero)

\* eulerstep(999, 1, 0, 0.001, gamma=0, dt=1)
Scenario1 ==
    Args(QInt(999), QInt(1), Zero, Q(1, 1000), Zero, Zero, Zero, Zero,
         QInt(1), Zero)

\* run(999, 1, 0.002, gamma=0.1, dt=1, t=5)
Scenario2 ==
    Args(QInt(999), QInt(1), Zero, Q(2, 1000), Q(1, 10), Zero, Zero, Zero,
         QInt(1), QInt(5))

EulerArgs ==
    {Args(s, i, r, beta, gamma, v[1], v[2], v[3], dt, Zero) :
        s \in SSet, i \in PopSet, r \in RSet, beta \in BetaSet \ {Q(-1, 2)},
        gamma \in GammaSet, v \in VitalSet, dt \in DtSet}
    \cup (IF numtype = "exact" THEN {Scenario1} ELSE {})

RunArgs ==
    {Args(s, i, Zero, beta, gamma, v[1], v[2], v[3], dt, t) :
        s \in {QInt(-3), QInt(7)}, i \in {Zero, QInt(1)},
        beta \in {Q(-1, 2), Q(1, 4)}, gamma \in {Zero, Q(1, 4)},
        v \in {<<Zero, Zero, Zero>>, <<Half, Half, Half>>},
        dt \in RunDtSet, t \in HorizonSet}
    \cup (IF numtype = "exact" THEN {Scenario2} ELSE {})

----------------------------------------------------------------------------
\* State machine: one call per behaviour, made from the idle state.

Init ==
    /\ numtype \in {"exact", "float"}
    /\ globalT = Unbound
    /\ op = "none"
    /\ a = NoArgs
    /\ out = <<>>
    /\ pc = "idle"
    /\ exc = "none"
    /\ steps = <<>>
    /\ nsteps = 0

\* The importing program assigns the module attribute T.
SetGlobalT ==
    /\ pc = "idle"
    /\ globalT = Unbound
    /\ \E v \in GlobalTSet : globalT' = v
    /\ UNCHANGED <<numtype, op, a, out, pc, exc, steps, nsteps>>

\* A call of a pure function returns its value.
Returned(name, args, value) ==
    /\ op' = name
    /\ a' = args
    /\ out' = value
    /\ pc' = "returned"
    /\ exc' = "none"
    /\ steps' = <<>>
    /\ nsteps' = 0
    /\ UNCHANGED <<numtype, globalT>>

Call_calc_ds ==
    /\ pc = "idle"
    /\ \E s \in SSet, i \in PopSet, r \in RSet, beta \in BetaSet, v \in VitalSet :
        Returned("calc_ds",
                 [NoArgs EXCEPT !.s = s, !.i = i, !.r = r, !.beta = beta,
                                !.alpha = v[1], !.mu = v[2], !.f = v[3]],
                 calc_ds(s, i, r, beta, v[1], v[2], v[3]))

Call_calc_di ==
    /\ pc = "idle"
    /\ \E s \in SSet, i \in PopSet, beta \in BetaSet, gamma \in GammaSet,
          mu \in {Zero, Half} :
        Returned("calc_di",
                 [NoArgs EXCEPT !.s = s, !.i = i, !.beta = beta,
                                !.gamma = gamma, !.mu = mu],
                 calc_di(s, i, beta, gamma, mu))

Call_calc_dr ==
    /\ pc = "idle"
    /\ \E i \in PopSet, r \in RSet, gamma \in GammaSet, mu \in {Zero, Half},
          f \in {Zero, Half} :
        Returned("calc_dr",
                 [NoArgs EXCEPT !.i = i, !.r = r, !.gamma = gamma,
                                !.mu = mu, !.f = f],
                 calc_dr(i, r, gamma, mu, f))

Call_eulerstep ==
    /\ pc = "idle"
    /\ \E args \in EulerArgs :
        Returned("eulerstep", args,
                 eulerstep(args.s, args.i, args.r, args.beta, args.gamma,
                           args.alpha, args.mu, args.f, args.dt))

\* run: list(yield_steps()) starts the generator, which evaluates
\* np.arange(0, T, dt); the name T is not bound: NameError.
RunNameError ==
    /\ pc = "idle"
    /\ globalT = Unbound
    /\ \E args \in RunArgs : a' = args
    /\ op' = "run"
    /\ pc' = "raised"
    /\ exc' = "NameError"
    /\ out' = <<>>
    /\ steps' = <<>>
    /\ nsteps' = 0
    /\ UNCHANGED <<numtype, globalT>>

\* run with T bound: the loop runs over the markers of np.arange(0, T, dt).
RunStart ==
    /\ pc = "idle"
    /\ globalT # Unbound
    /\ \E args \in RunArgs :
        /\ a' = args
        /\ nsteps' = arange_len(globalT, args.dt)
    /\ op' = "run"
    /\ pc' = "loop"
    /\ exc' = "none"
    /\ out' = <<>>
    /\ steps' = <<>>
    /\ UNCHANGED <<numtype, globalT>>

\* One iteration of the for loop of yield_steps.
YieldStep ==
    /\ pc = "loop"
    /\ Len(steps) < nsteps
    /\ steps' = Append(steps, yield_value(a, steps))
    /\ UNCHANGED <<numtype, globalT, op, a, out, pc, exc, nsteps>>

\* The generator is exhausted with nothing yielded: np.array([]).T has
\* shape (0,), and result[0] raises IndexError.
RunIndexError ==
    /\ pc = "loop"
    /\ Len(steps) = nsteps
    /\ nsteps = 0
    /\ pc' = "raised"
    /\ exc' = "IndexError"
    /\ UNCHANGED <<numtype, globalT, op, a, out, steps, nsteps>>

\* return result[0], result[1], result[2]
RunReturn ==
    /\ pc = "loop"
    /\ Len(steps) = nsteps
    /\ nsteps > 0
    /\ out' = transpose(steps)
    /\ pc' = "returned"
    /\ UNCHANGED <<numtype, globalT, op, a, exc, steps, nsteps>>

Next ==
    \/ SetGlobalT
    \/ Call_calc_ds
    \/ Call_calc_di
    \/ Call_calc_dr
    \/ Call_eulerstep
    \/ RunNameError
    \/ RunStart
    \/ YieldStep
    \/ RunIndexError
    \/ RunReturn

Spec == Init /\ [][Next]_vars

----------------------------------------------------------------------------
\* Properties

MaxMarkers == 12

RunEnded == op = "run" /\ pc \in {"returned", "raised"}
RunReturned == op = "run" /\ pc = "returned"
EulerReturned == op = "eulerstep" /\ pc = "returned"

\* The values of the current call's arguments before rounding to counts.
PreS == euler_s1(a.s, a.i, a.r, a.beta, a.gamma, a.alpha, a.mu, a.f, a.dt)
PreI == euler_i1(a.s, a.i, a.r, a.beta, a.gamma, a.alpha, a.mu, a.f, a.dt)
PreR == euler_r1(a.s, a.i, a.r, a.beta, a.gamma, a.alpha, a.mu, a.f, a.dt)

\* y is the ceiling of x: the integer with y - 1 < x <= y.
IsCeilingOf(y, x) ==
    /\ QIsInt(y)
    /\ ~QLess(y, x)
    /\ QLess(QSub(y, QInt(1)), x)

\* The number of markers 0, dt, 2*dt, ... strictly below the horizon t.
Markers(t, dt) ==
    Cardinality({k \in 0..MaxMarkers : QLess(QMul(QInt(k), dt), t)})

\* The state after n successive Euler steps from <<s0, i0, r0>>.
RECURSIVE EulerIter(_, _)
EulerIter(args, n) ==
    IF n = 0 THEN <<args.s, args.i, args.r>>
    ELSE LET prev == EulerIter(args, n - 1)
         IN  eulerstep(prev[1], prev[2], prev[3], args.beta, args.gamma,
                       args.alpha, args.mu, args.f, args.dt)

FirstStep ==
    eulerstep(a.s, a.i, a.r, a.beta, a.gamma, a.alpha, a.mu, a.f, a.dt)

\* C1: a call of run never ends by raising an exception.
C1_RunNeverRaises == op = "run" => pc # "raised"

\* C2: a call of run (dt > 0) ends by returning three sequences whose
\* length is the number of markers 0, dt, 2*dt, ... below the horizon t.
C2_OneEntryPerMarker ==
    (RunEnded /\ QLess(Zero, a.dt)) =>
        /\ pc = "returned"
        /\ \A c \in 1..3 : Len(out[c]) = Markers(a.t, a.dt)

\* C3: a call of run with dt > 0 and horizon t < dt ends by returning
\* three empty sequences.
C3_EmptyBelowDt ==
    (RunEnded /\ QLess(Zero, a.dt) /\ QLess(a.t, a.dt)) =>
        /\ pc = "returned"
        /\ out = <<<< >>, << >>, << >>>>

\* C4: the k-th entry of the sequences run returns is the state after k
\* successive Euler steps from the initial state (k counted from 1).
C4_EntriesCompound ==
    RunReturned =>
        \A k \in 1..Len(out[1]) :
            <<out[1][k], out[2][k], out[3][k]>> = EulerIter(a, k)

C6_ExtinctionFloor ==
    EulerReturned =>
        /\ QLess(PreI, Half) => out[2] = Zero
        /\ IsCeilingOf(out[1], PreS)
        /\ IsCeilingOf(out[3], PreR)

\* C6 witness: infected and susceptible both advance to a value strictly
\* between 0 and 0.5: infected is returned as 0, susceptible as 1.
C6_Witness ==
    /\ EulerReturned
    /\ QLess(Zero, PreI) /\ QLess(PreI, Half) /\ out[2] = Zero
    /\ QLess(Zero, PreS) /\ QLess(PreS, Half) /\ out[1] = QInt(1)

\* C7 as stated: each of the three values eulerstep returns is the ceiling
\* of old value + dt * derivative.
C7_AllThreeAreCeilings ==
    EulerReturned =>
        /\ IsCeilingOf(out[1], PreS)
        /\ IsCeilingOf(out[2], PreI)
        /\ IsCeilingOf(out[3], PreR)

\* C7 amended: s and r are the ceilings of old value + dt * derivative; the
\* infected value is that ceiling when the advanced value is at least 0.5,
\* and 0 when it is below 0.5.
C7_CeilingAfterFloor ==
    EulerReturned =>
        /\ IsCeilingOf(out[1], PreS)
        /\ IsCeilingOf(out[3], PreR)
        /\ IF QLess(PreI, Half) THEN out[2] = Zero
           ELSE IsCeilingOf(out[2], PreI)

\* C7 witness: all three advanced values are fractional and the infected
\* one is above 0.5, so each is rounded up to the next integer.
C7_Witness ==
    /\ EulerReturned
    /\ ~QIsInt(PreS) /\ ~QIsInt(PreR)
    /\ ~QIsInt(PreI) /\ QLess(Half, PreI)
    /\ out = <<Ceiling(PreS), Ceiling(PreI), Ceiling(PreR)>>

\* C8 as stated: the three values eulerstep returns are integer-valued and
\* non-negative.
C8_IntegerAndNonNegative ==
    EulerReturned =>
        \A k \in 1..3 : QIsInt(out[k]) /\ ~QLess(out[k], Zero)

\* C8 amended: the three values are integer-valued and the infected value
\* is non-negative.
C8_IntegerAndInfectedNonNegative ==
    EulerReturned =>
        /\ \A k \in 1..3 : QIsInt(out[k])
        /\ ~QLess(out[2], Zero)

\* C8 witness: all three compartments advance to a negative value; s and r
\* are returned negative, the infected value as 0.
C8_Witness ==
    /\ EulerReturned
    /\ QLess(PreI, Zero) /\ out[2] = Zero
    /\ QLess(out[1], Zero) /\ QLess(out[3], Zero)

\* The derivative values of the current call's arguments, and their sum as
\* Python evaluates calc_ds(..) + calc_di(..) + calc_dr(..).
DerivS == calc_ds(a.s, a.i, a.r, a.beta, a.alpha, a.mu, a.f)
DerivI == calc_di(a.s, a.i, a.beta, a.gamma, a.mu)
DerivR == calc_dr(a.i, a.r, a.gamma, a.mu, a.f)
DerivSum == Add(Add(DerivS, DerivI), DerivR)
Infection == Mul(Mul(a.beta, a.s), a.i)
Recovery == Mul(a.gamma, a.i)

\* The calls that evaluate derivatives, with alpha = mu = f = 0.
ClassicSIR ==
    /\ op \in {"calc_ds", "calc_di", "calc_dr", "eulerstep"}
    /\ a.alpha = Zero /\ a.mu = Zero /\ a.f = Zero

\* C9 as stated: with alpha = mu = f = 0 the three derivatives sum to 0;
\* with gamma = 0 they are -beta*s*i, beta*s*i and 0, otherwise calc_dr is
\* gamma*i.
C9_DerivativesSumToZero ==
    ClassicSIR =>
        /\ DerivSum = Zero
        /\ DerivR = Recovery
        /\ a.gamma = Zero =>
            DerivS = QNeg(Infection) /\ DerivI = Infection /\ DerivR = Zero

\* C9 amended: with alpha = mu = f = 0, calc_ds is -(beta*s*i), calc_dr is
\* gamma*i and calc_di is beta*s*i - gamma*i; their sum is 0 whenever that
\* subtraction is exact (always for exact arguments, and for gamma = 0).
C9_SumZeroWhenSubtractionExact ==
    ClassicSIR =>
        /\ DerivS = QNeg(Infection)
        /\ DerivR = Recovery
        /\ DerivI = Sub(Infection, Recovery)
        /\ Sub(Infection, Recovery) = QSub(Infection, Recovery) =>
            DerivSum = Zero
        /\ a.gamma = Zero => DerivI = Infection /\ DerivR = Zero
        /\ op = "calc_ds" => out = DerivS
        /\ op = "calc_di" => out = DerivI
        /\ op = "calc_dr" => out = DerivR

\* C9 witness: a float call with infection and recovery terms both nonzero
\* and different whose difference is exact: the derivatives cancel.
C9_Witness ==
    /\ ClassicSIR
    /\ numtype = "float"
    /\ op = "calc_di"
    /\ Infection # Zero /\ Recovery # Zero /\ Infection # Recovery
    /\ out = QSub(Infection, Recovery)
    /\ DerivSum = Zero

\* C10 as stated: eulerstep(999, 1, 0, 0.001, gamma=0, dt=1) returns
\* <<998, 2, 0>>, whose total is that of the input, 1000.
C10_ScenarioConserves ==
    (EulerReturned /\ a = Scenario1) =>
        /\ out = <<QInt(998), QInt(2), Zero>>
        /\ QAdd(QAdd(out[1], out[2]), out[3]) = QInt(1000)

\* C10 amended: the call returns <<999, 2, 0>> (998.001 and 1.999 rounded
\* up), whose total is 1001.
C10_ScenarioRoundsUp ==
    (EulerReturned /\ a = Scenario1) =>
        /\ out = <<QInt(999), QInt(2), Zero>>
        /\ QAdd(QAdd(out[1], out[2]), out[3]) = QInt(1001)

\* C10 witness: the call has returned, from advanced values 998.001, 1.999
\* and 0.
C10_Witness ==
    /\ EulerReturned
    /\ a = Scenario1
    /\ PreS = Q(998001, 1000) /\ PreI = Q(1999, 1000) /\ PreR = Zero
    /\ out[1] = QInt(999)

====
